---- MODULE Spec2Model ----
(***************************************************************************)
(* A model of the revision diff engine of go-perforce (src/toolkit.go) and *)
(* of the wrapper calls it makes (GetP4Where, GetFile, GetHeadRev,         *)
(* GetP4Files).                                                            *)
(*                                                                         *)
(* Representation.  A file is a sequence of byte values.  The text an      *)
(* external p4 command prints is a sequence of line records (one record    *)
(* per output line, its keyword and its numeric tokens); the regular       *)
(* expressions and string splits of the code are evaluated on those        *)
(* records.  A numeric token is [v, fits]: fits = FALSE is a digit string  *)
(* too long for a Go int, on which strconv.Atoi reports a range error.     *)
(* An error value is a string, "nil" for no error; "panic" is a run-time   *)
(* panic of the goroutine (index out of range).                            *)
(*                                                                         *)
(* A Go function is one operator named after it; where its body goes on    *)
(* with the result of a call, the rest of the body is a second operator    *)
(* that takes that result as a parameter (p4DiffCounted, customDiffHR...). *)
(***************************************************************************)
EXTENDS Integers, Sequences, FiniteSets, TLC

VARIABLES p, pc, env, ret

vars == <<p, pc, env, ret>>

(* ----------------------------- bounds --------------------------------- *)

\* longest workspace file, in bytes, given to the summary-diff path
MaxBytes == 4
\* largest line count the external tool reports on an add / deleted line
MaxCount == 3
\* most lines of a file given to the multiset diff by the orchestrator
MaxLinesOrch == 1
\* most lines of a file given to the multiset diff called on its own
MaxLines == 3
\* longest byte stream given to lineCounter called on its own
MaxStream == 5
\* most lines of a file scanned one loop iteration at a time
MaxScan == 2
\* largest change-list number asked of, or answered by, "p4 describe"
MaxCL == 2
\* most file lines in the answer of "p4 describe"
MaxFiles == 2
\* largest revision asked of GetFile
MaxRev == 2
\* invocations of the multiset diff running at the same time
MaxProcs == 2
\* names ioutil.TempFile can give to a temp file
MaxNames == 2

(* ----------------------------- helpers -------------------------------- *)

\* all sequences over S of length at most n
SeqUpTo(S, n) == UNION {[1..k -> S] : k \in 0..n}

\* does sep occur in s at position i
MatchAt(s, sep, i) ==
    /\ i + Len(sep) - 1 <= Len(s)
    /\ \A k \in 1..Len(sep) : s[i + k - 1] = sep[k]

\* bytes.Count: the number of non-overlapping occurrences of sep in s
RECURSIVE bytesCountFrom(_, _, _)
bytesCountFrom(s, sep, i) ==
    IF i + Len(sep) - 1 > Len(s) THEN 0
    ELSE IF MatchAt(s, sep, i) THEN 1 + bytesCountFrom(s, sep, i + Len(sep))
    ELSE bytesCountFrom(s, sep, i + 1)

bytesCount(s, sep) == bytesCountFrom(s, sep, 1)

(* --------------------------- T_DiffRes -------------------------------- *)

\* the zero value of T_DiffRes
ZeroRes ==
    [Utf16crlf |-> FALSE, FileHR |-> "", NbLinesHR |-> 0, EncodingHR |-> "",
     FileWS |-> "", NbLinesWS |-> 0, AddedLines |-> 0, RemovedLines |-> 0,
     ChangedLines |-> 0]

(* --------------------------- lineCounter ------------------------------ *)

lineSep == <<10>>
utf16LESep == <<13, 0, 10, 0>>
utf16BESep == <<0, 13, 0, 10>>

\* The successive results of r.Read on a file: the data of each read and its
\* error, "nil", "EOF" or "EIO".  A file on disk is f = [exists, data, rderr]:
\* with rderr the read that follows the data fails.
Reads(f) ==
    (IF f.data = <<>> THEN <<>> ELSE <<[data |-> f.data, err |-> "nil"]>>)
        \o <<[data |-> <<>>, err |-> IF f.rderr THEN "EIO" ELSE "EOF"]>>

\* lineCounterLoop testing the error of a read before it counts its bytes
RECURSIVE lineCounterLoop_ErrFirst(_, _, _, _)
lineCounterLoop_ErrFirst(reads, i, count, utf16crlf) ==
    LET c == reads[i].data
        u == IF ~utf16crlf
             THEN (bytesCount(c, utf16LESep) >= 1) \/ (bytesCount(c, utf16BESep) >= 1)
             ELSE utf16crlf
        n == count + bytesCount(c, lineSep)
    IN  CASE reads[i].err = "EOF" ->
                 [count |-> count, utf16crlf |-> utf16crlf, err |-> "nil"]
          [] reads[i].err \notin {"nil", "EOF"} ->
                 [count |-> count, utf16crlf |-> utf16crlf, err |-> reads[i].err]
          [] OTHER -> lineCounterLoop_ErrFirst(reads, i + 1, n, u)

RECURSIVE lineCounterLoop(_, _, _, _)
lineCounterLoop(reads, i, count, utf16crlf) ==
    LET c == reads[i].data
        u == IF ~utf16crlf
             THEN (bytesCount(c, utf16LESep) >= 1) \/ (bytesCount(c, utf16BESep) >= 1)
             ELSE utf16crlf
        n == count + bytesCount(c, lineSep)
    IN  CASE reads[i].err = "EOF" -> [count |-> n, utf16crlf |-> u, err |-> "nil"]
          [] reads[i].err \notin {"nil", "EOF"} ->
                 [count |-> n, utf16crlf |-> u, err |-> reads[i].err]
          [] OTHER -> lineCounterLoop(reads, i + 1, n, u)

lineCounter(reads) == lineCounterLoop(reads, 1, 0, FALSE)

(* --------------------------- GetP4Where ------------------------------- *)

\* the -u option of a p4 command line, present when a user is configured
UserArgs(q) == IF Len(q.user) > 0 THEN <<"-u", q.user>> ELSE <<>>

\* the index of the first line of out tagged tag, 0 if there is none
FirstTagged(out, tag) ==
    IF \E i \in 1..Len(out) : out[i].tag = tag
    THEN CHOOSE i \in 1..Len(out) :
             out[i].tag = tag /\ \A j \in 1..(i - 1) : out[j].tag # tag
    ELSE 0

\* strings.Trim(s, "\r\n") of a text <<body, eol>> whose body neither starts
\* nor ends with a line terminator and whose eol is made of terminators only
TrimEol(t) == t[1]

\* e.where = [ok, lines]: the exit status and the output of "p4 -ztag where";
\* a line is [tag, val, eol], printed as "... " tag " " val eol.
GetP4Where(q, depotFile, e) ==
    LET cmd == <<"p4", "-ztag">> \o UserArgs(q)
                   \o <<"-c", q.workspace, "where", depotFile>>
        i == FirstTagged(e.where.lines, "path")
    IN  IF ~e.where.ok
        THEN [fileName |-> "", err |-> "p4 command line error", cmds |-> <<cmd>>]
        ELSE IF i = 0
        THEN [fileName |-> "", err |-> "p4 command line parsing result error",
              cmds |-> <<cmd>>]
        ELSE [fileName |-> TrimEol(<<e.where.lines[i].val, e.where.lines[i].eol>>),
              err |-> "nil", cmds |-> <<cmd>>]

(* --------------------------- p4DiffHRvsWS ----------------------------- *)

\* strconv.Atoi on a numeric token
Atoi(tok) == IF tok.fits THEN [n |-> tok.v, err |-> "nil"]
             ELSE [n |-> 0, err |-> "value out of range"]

\* does the pattern of p4DiffHRvsWS match the output at line i: the header,
\* then the add, the deleted and the two-number changed line, in that order
PatternAt(out, i) ==
    /\ i + 3 <= Len(out)
    /\ out[i].kw = "hdr"
    /\ out[i + 1].kw = "add"
    /\ out[i + 2].kw = "deleted"
    /\ out[i + 3].kw = "changed"
    /\ out[i + 3].pair

\* the text of the whole match, groups[0][0]
WholeMatch(out, i) ==
    out[i].depot \o " - " \o out[i].ws \o " ==== add deleted changed"

\* getPattern.FindAllStringSubmatch(out, -1): one 10-element group list for
\* every match, left to right (the matches cannot overlap)
FindAllStringSubmatch(out) ==
    LET idx == {i \in 1..Len(out) : PatternAt(out, i)}
        nth(k) == CHOOSE i \in idx : Cardinality({j \in idx : j < i}) = k - 1
        grp(i) == <<WholeMatch(out, i), out[i].depot, out[i].ws,
                    out[i + 1].chunks, out[i + 1].n1,
                    out[i + 2].chunks, out[i + 2].n1,
                    out[i + 3].chunks, out[i + 3].n1, out[i + 3].n2>>
    IN  [k \in 1..Cardinality(idx) |-> grp(nth(k))]

\* the option argument handed to "p4 diff": the variable option when a user
\* is configured, the string literal "option" otherwise
DiffOption(q) ==
    IF Len(q.user) > 0
    THEN (IF q.diffignorespace THEN "-dlsb" ELSE "-dls")
    ELSE "option"

\* the conversion of the matched counts and the filling of r; groups is the
\* result of FindAllStringSubmatch, a1, a2, a3 the results of strconv.Atoi
p4DiffFill(r, cmd, groups, a1, a2, a3) ==
    IF a1.err # "nil" \/ a2.err # "nil" \/ a3.err # "nil"
    THEN [r |-> r, err |-> "parsing error", cmds |-> <<cmd>>]
    ELSE [r |-> [r EXCEPT !.FileHR = groups[1][1], !.FileWS = groups[1][2],
                          !.AddedLines = a1.n, !.RemovedLines = a2.n,
                          !.ChangedLines = a3.n],
          err |-> "nil", cmds |-> <<cmd>>]

\* the use of groups[0]: an index out of range when nothing matched
p4DiffParse(r, cmd, groups) ==
    IF Len(groups) = 0
    THEN [r |-> ZeroRes, err |-> "panic", cmds |-> <<cmd>>]
    ELSE p4DiffFill(r, cmd, groups,
                    Atoi(groups[1][5]), Atoi(groups[1][7]), Atoi(groups[1][9]))

\* p4DiffCounted without its test of the workspace name
p4DiffCounted_NoWorkspaceCheck(q, fileInDepot, e, lc) ==
    LET r == [ZeroRes EXCEPT !.NbLinesWS = lc.count, !.Utf16crlf = lc.utf16crlf]
        cmd == <<"p4">> \o UserArgs(q)
                   \o <<"-c", q.workspace, "diff", DiffOption(q), fileInDepot>>
    IN  IF lc.err # "nil"
        THEN [r |-> r, err |-> lc.err, cmds |-> <<>>]
        ELSE IF ~e.diff.ok
        THEN [r |-> r, err |-> "P4 command line error", cmds |-> <<cmd>>]
        ELSE p4DiffParse(r, cmd, FindAllStringSubmatch(e.diff.lines))

\* the rest of p4DiffHRvsWS once lineCounter has returned lc
p4DiffCounted(q, fileInDepot, e, lc) ==
    LET r == [ZeroRes EXCEPT !.NbLinesWS = lc.count, !.Utf16crlf = lc.utf16crlf]
        cmd == <<"p4">> \o UserArgs(q)
                   \o <<"-c", q.workspace, "diff", DiffOption(q), fileInDepot>>
    IN  IF lc.err # "nil"
        THEN [r |-> r, err |-> lc.err, cmds |-> <<>>]
        ELSE IF Len(q.workspace) <= 0
        THEN [r |-> r, err |-> "a workspace needs to be defined", cmds |-> <<>>]
        ELSE IF ~e.diff.ok
        THEN [r |-> r, err |-> "P4 command line error", cmds |-> <<cmd>>]
        ELSE p4DiffParse(r, cmd, FindAllStringSubmatch(e.diff.lines))

p4DiffHRvsWS(q, fileInDepot, fileInWS, e) ==
    IF ~e.ws.exists
    THEN [r |-> ZeroRes, err |-> "open error", cmds |-> <<>>]
    ELSE p4DiffCounted(q, fileInDepot, e, lineCounter(Reads(e.ws)))

(* ---------------------- GetP4Files, GetHeadRev, GetFile ---------------- *)

\* e.files = [ok, noSuch, lines]: the exit status of "p4 files -e", whether
\* its output ends with "no such file(s).", and the output lines that match
\* the pattern of GetP4Files; a line is [rev, cl], two numeric tokens.
RECURSIVE GetP4FilesLoop(_, _, _)
GetP4FilesLoop(list, i, properties) ==
    IF i > Len(list) THEN [properties |-> properties, err |-> "nil"]
    ELSE LET rev == Atoi(list[i].rev)
             cl == Atoi(list[i].cl)
         IN  IF rev.err # "nil" \/ cl.err # "nil"
             THEN [properties |-> properties, err |-> "Format error conv to number"]
             ELSE GetP4FilesLoop(list, i + 1,
                      Append(properties, [HeadRevision |-> rev.n, ChangeList |-> cl.n]))

\* the command of GetP4Files
GetP4FilesCmd(q, depotFilePattern) ==
    <<"p4">> \o UserArgs(q) \o <<"files", "-e", depotFilePattern>>

GetP4Files(q, depotFilePattern, e) ==
    IF ~e.files.ok
    THEN [properties |-> <<>>, err |-> "P4 command line error"]
    ELSE IF e.files.noSuch
    THEN [properties |-> <<>>, err |-> "nil"]
    ELSE GetP4FilesLoop(e.files.lines, 1, <<>>)

\* the rest of GetHeadRev once GetP4Files has returned f
GetHeadRevOf(f, cmd) ==
    [rev |-> IF Len(f.properties) > 0 THEN f.properties[1].HeadRevision
             ELSE IF f.err # "nil" THEN -1 ELSE 0,
     err |-> f.err, cmds |-> <<cmd>>]

GetHeadRev(q, depotFileName, e) ==
    GetHeadRevOf(GetP4Files(q, depotFileName, e), GetP4FilesCmd(q, depotFileName))

\* strconv.Itoa
Digits == <<"0", "1", "2", "3", "4", "5", "6", "7", "8", "9">>

RECURSIVE ItoaNat(_)
ItoaNat(n) == IF n < 10 THEN Digits[n + 1] ELSE ItoaNat(n \div 10) \o Digits[(n % 10) + 1]

Itoa(n) == IF n < 0 THEN "-" \o ItoaNat(0 - n) ELSE ItoaNat(n)

\* the temp file GetFile leaves on disk, [exists, data, rderr]: none before
\* ioutil.TempFile, an empty one after it, and what "p4 print -o" made of it
NoTemp == [exists |-> FALSE, data |-> <<>>, rderr |-> FALSE]
TempAfterPrint(e) ==
    IF e.print.wrote
    THEN [exists |-> TRUE, data |-> e.print.data, rderr |-> e.hrRderr]
    ELSE [exists |-> TRUE, data |-> <<>>, rderr |-> FALSE]

\* the rest of GetFile once the revision is known: h is the result of
\* GetHeadRev, or the requested revision when rev > 0
GetFileRev(q, depotFile, rev, e, h) ==
    LET cmd == <<"p4">> \o UserArgs(q)
                   \o <<"print", "-k", "-q", "-o", e.tmp.name,
                        depotFile \o "#" \o Itoa(h.rev)>>
    IN  IF rev <= 0 /\ h.err # "nil"
        THEN [tempFile |-> "", fileName |-> <<depotFile, 0>>, err |-> h.err,
              cmds |-> h.cmds, temp |-> NoTemp]
        ELSE IF ~e.tmp.createOK
        THEN [tempFile |-> "", fileName |-> <<depotFile, h.rev>>,
              err |-> "Unable to create a temp file", cmds |-> h.cmds,
              temp |-> NoTemp]
        ELSE IF ~e.print.ok
        THEN [tempFile |-> e.tmp.name, fileName |-> <<depotFile, h.rev>>,
              err |-> "p4 command line error", cmds |-> Append(h.cmds, cmd),
              temp |-> TempAfterPrint(e)]
        ELSE IF ~e.statOK
        THEN [tempFile |-> e.tmp.name, fileName |-> <<depotFile, h.rev>>,
              err |-> "Can't access the status of file produced",
              cmds |-> Append(h.cmds, cmd), temp |-> TempAfterPrint(e)]
        ELSE [tempFile |-> e.tmp.name, fileName |-> <<depotFile, h.rev>>,
              err |-> "nil", cmds |-> Append(h.cmds, cmd),
              temp |-> TempAfterPrint(e)]

\* e.tmp = [createOK, name]: whether ioutil.TempFile succeeds, and the name it
\* gives; e.print = [ok, wrote, data]: the exit status of "p4 print -o", and
\* whether it wrote data to the temp file; e.statOK: whether os.Stat succeeds.
\* fileName, the display label, is <<depotFile, rev>>.
GetFile(q, depotFile, rev, e) ==
    GetFileRev(q, depotFile, rev, e,
               IF rev > 0 THEN [rev |-> rev, err |-> "nil", cmds |-> <<>>]
               ELSE GetHeadRev(q, depotFile, e))

(* ---------------------------- GetCLContent ---------------------------- *)

\* the zero value of T_CLProperties; List is a function from file names to
\* [Rev, Action], the nil map being the empty function
ZeroCL ==
    [CLNb |-> 0, User |-> "", Workspace |-> "", DateStamp |-> "",
     Pending |-> FALSE, Comment |-> "", List |-> <<>>]

\* properties.List[filename] = T_CLFileProperties{Rev: rev, Action: action}
SetFile(list, filename, v) ==
    [x \in DOMAIN list \cup {filename} |-> IF x = filename THEN v ELSE list[x]]

\* the loop over the file lines matched in the answer
RECURSIVE GetCLContentLoop(_, _, _)
GetCLContentLoop(list, i, properties) ==
    IF i > Len(list) THEN [properties |-> properties, err |-> "nil"]
    ELSE IF Atoi(list[i].rev).err # "nil"
    THEN [properties |-> properties,
          err |-> "Error parsing - Format error conv to number"]
    ELSE GetCLContentLoop(list, i + 1,
             [properties EXCEPT !.List =
                 SetFile(@, list[i].name,
                         [Rev |-> Atoi(list[i].rev).n, Action |-> list[i].action])])

\* the end of GetCLContent: l is the result of the loop over the file lines
GetCLContentCheck(changeList, l, cmd) ==
    IF l.err # "nil"
    THEN [properties |-> l.properties, err |-> l.err, cmds |-> <<cmd>>]
    ELSE IF changeList # l.properties.CLNb
    THEN [properties |-> l.properties,
          err |-> "Perforce error - Wrong change list data received",
          cmds |-> <<cmd>>]
    ELSE [properties |-> l.properties, err |-> "nil", cmds |-> <<cmd>>]

\* the list of files, once the properties of the change list are recorded
GetCLContentFiles(changeList, d, properties, cmd) ==
    IF ~d.hasList
    THEN [properties |-> properties, err |-> "nil", cmds |-> <<cmd>>]
    ELSE GetCLContentCheck(changeList,
                           GetCLContentLoop(d.files, 1, properties), cmd)

\* the properties of the change list: n is the result of strconv.Atoi on the
\* number matched after "Change "
GetCLContentHeader(changeList, d, n, cmd) ==
    IF n.err # "nil"
    THEN [properties |-> [ZeroCL EXCEPT !.CLNb = n.n],
          err |-> "Error parsing - Format error conv to number", cmds |-> <<cmd>>]
    ELSE GetCLContentFiles(changeList, d,
             [ZeroCL EXCEPT !.CLNb = n.n, !.User = d.user,
                            !.Workspace = d.workspace, !.DateStamp = d.date,
                            !.Pending = d.pending, !.Comment = d.comment],
             cmd)

\* the answer parsed: d = e.describe
GetCLContentParse(changeList, d, cmd) ==
    IF ~d.ok
    THEN [properties |-> ZeroCL, err |-> "P4 command line error", cmds |-> <<cmd>>]
    ELSE IF d.noSuch
    THEN [properties |-> ZeroCL, err |-> "No such change list", cmds |-> <<cmd>>]
    ELSE IF ~d.hdr
    THEN [properties |-> ZeroCL, err |-> "Error parsing - nb field read",
          cmds |-> <<cmd>>]
    ELSE GetCLContentHeader(changeList, d, Atoi(d.clnb), cmd)

\* e.describe = [ok, noSuch, hdr, clnb, user, workspace, date, pending,
\* comment, hasList, files]: the exit status of "p4 describe -s"; whether its
\* output ends with "no such changelist."; whether the pattern of the "Change
\* ... Affected files ..." header matches, and what its groups hold (clnb a
\* numeric token); whether "... //" follows the "Affected files ..." line;
\* and the lines that match the file pattern, each [name, rev, action].
GetCLContent(q, changeList, e) ==
    GetCLContentParse(changeList, e.describe,
        <<"p4">> \o UserArgs(q) \o <<"describe", "-s", Itoa(changeList)>>)

(* ---------------- GetCLSpecProperties, PutCLSpecProperties ------------ *)

\* the zero value of T_CLSpecProperties; Description is the sequence of the
\* lines that "\n" separates, <<"">> for the empty string, Files a function
\* from file names to actions, Form the form received
NoForm == [lines |-> 0, crlf |-> FALSE]
ZeroCLSpec ==
    [ChangeList |-> 0, Date |-> "", Client |-> "", User |-> "", Status |-> "",
     Type |-> "", Description |-> <<"">>, Files |-> <<>>, Eol |-> "", Form |-> NoForm]

\* the loop over the file lines of the form
RECURSIVE GetCLSpecFilesLoop(_, _, _)
GetCLSpecFilesLoop(list, i, files) ==
    IF i > Len(list) THEN files
    ELSE GetCLSpecFilesLoop(list, i + 1, SetFile(files, list[i].name, list[i].action))

\* the fields after the change-list number: a field whose pattern does not
\* match is "" in the form f and stays "" in the properties
GetCLSpecFields(f, properties, cmd) ==
    [properties |->
         [properties EXCEPT !.Date = f.date, !.Client = f.client, !.User = f.user,
                            !.Status = f.status, !.Type = f.type,
                            !.Description = f.descr,
                            !.Files = IF f.hasFiles
                                      THEN GetCLSpecFilesLoop(f.files, 1, <<>>)
                                      ELSE <<>>,
                            !.Form = [lines |-> f.lines, crlf |-> f.crlf]],
     err |-> "nil", cmds |-> <<cmd>>]

\* the change-list number: f.change tells what the pattern of the Change
\* line matched, "none", "new" or "number", n is strconv.Atoi of the number
GetCLSpecChange(f, properties, n, cmd) ==
    CASE f.change = "none" -> GetCLSpecFields(f, properties, cmd)
      [] f.change = "new" ->
             GetCLSpecFields(f, [properties EXCEPT !.ChangeList = -1], cmd)
      [] OTHER ->
             IF n.err # "nil"
             THEN [properties |-> [properties EXCEPT !.ChangeList = n.n],
                   err |-> "Parsing changelist# error", cmds |-> <<cmd>>]
             ELSE GetCLSpecFields(f, [properties EXCEPT !.ChangeList = n.n], cmd)

\* the end of line: the form has f.lines line feeds, each after a carriage
\* return when f.crlf
GetCLSpecEol(f) ==
    IF f.lines >= (IF f.crlf THEN f.lines ELSE 0) THEN "\n" ELSE "\r\n"

\* the form parsed: f = e.change
GetCLSpecParse(f, cmd) ==
    IF ~f.ok
    THEN [properties |-> ZeroCLSpec, err |-> "P4 command line error", cmds |-> <<cmd>>]
    ELSE GetCLSpecChange(f, [ZeroCLSpec EXCEPT !.Eol = GetCLSpecEol(f)],
                         Atoi(f.clnb), cmd)

\* e.change = [ok, lines, crlf, change, clnb, date, client, user, status,
\* type, descr, hasFiles, files]: the exit status of "p4 change -o" and the
\* form it prints.
GetCLSpecProperties(q, cl, e) ==
    GetCLSpecParse(e.change,
        <<"p4">> \o UserArgs(q)
            \o <<"-c", q.workspace, "change", "-o", IF cl > 0 THEN Itoa(cl) ELSE "">>)

\* the command of PutCLSpecProperties: without user the code passes "-u"
\* alone
PutCLSpecCmd(q) ==
    IF Len(q.user) > 0
    THEN <<"p4", "-u", q.user, "-c", q.workspace, "change", "-i">>
    ELSE <<"p4", "-u", "-c", q.workspace, "change", "-i">>

\* an optional line of the form written to stdin
FormLine(label, val) == IF Len(val) > 0 THEN <<label \o val>> ELSE <<>>

\* the form written to stdin: its lines in order, then the file lines, which
\* come in the order of a map iteration, that is in any order
PutCLSpecForm(properties) ==
    [lines |->
         <<"", "Change:\t" \o (IF properties.ChangeList = -1 THEN "new"
                                ELSE Itoa(properties.ChangeList) \o "new")>>
             \o FormLine("Date:\t", properties.Date)
             \o FormLine("Client:\t", properties.Client)
             \o FormLine("User:\t", properties.User)
             \o FormLine("Status:\t", properties.Status)
             \o FormLine("Type:\t", properties.Type)
             \o <<"Description:">>
             \o [i \in 1..Len(properties.Description) |->
                    IF i = Len(properties.Description) /\ properties.Description[i] = ""
                    THEN "" ELSE "\t" \o properties.Description[i]]
             \o (IF DOMAIN properties.Files # {} THEN <<"Files:">> ELSE <<>>),
     files |-> {"\t" \o k \o " #" \o properties.Files[k] : k \in DOMAIN properties.Files}]

\* the answer parsed: a = e.put, cl is strconv.Atoi of the number matched
PutCLSpecAnswer(a, cl, cmd, form) ==
    IF ~a.ok
    THEN [CL |-> 0, err |-> "P4 command line error (CombinedOutput)",
          cmds |-> <<cmd>>, stdin |-> form]
    ELSE IF ~a.matched
    THEN [CL |-> 0, err |-> "Error unexpected response", cmds |-> <<cmd>>,
          stdin |-> form]
    ELSE IF cl.err # "nil"
    THEN [CL |-> 0, err |-> "Error changelist format", cmds |-> <<cmd>>,
          stdin |-> form]
    ELSE [CL |-> cl.n, err |-> "nil", cmds |-> <<cmd>>, stdin |-> form]

\* e.put = [pipeOK, ok, matched, cl, nbfiles]: whether cmd.StdinPipe
\* succeeds, the exit status of "p4 change -i", whether its output starts
\* with "Change n created with m open file(s)", and the two numbers.
PutCLSpecProperties(q, properties, e) ==
    IF ~e.put.pipeOK
    THEN [CL |-> 0, err |-> "P4 command line error (pipe)", cmds |-> <<>>,
          stdin |-> [lines |-> <<>>, files |-> {}]]
    ELSE PutCLSpecAnswer(e.put, Atoi(e.put.cl), PutCLSpecCmd(q),
                         PutCLSpecForm(properties))

(* ------------------------- customDiffHRvsWS --------------------------- *)

\* the index of the first byte b of s, 0 if there is none
IndexByte(s, b) ==
    IF \E i \in 1..Len(s) : s[i] = b
    THEN CHOOSE i \in 1..Len(s) : s[i] = b /\ \A j \in 1..(i - 1) : s[j] # b
    ELSE 0

\* bufio.dropCR
dropCR(s) == IF Len(s) > 0 /\ s[Len(s)] = 13 THEN SubSeq(s, 1, Len(s) - 1) ELSE s

\* the tokens bufio.Scanner yields with bufio.ScanLines on data
RECURSIVE ScanLines(_)
ScanLines(data) ==
    IF data = <<>> THEN <<>>
    ELSE LET i == IndexByte(data, 10)
         IN  IF i = 0 THEN <<dropCR(data)>>
             ELSE <<dropCR(SubSeq(data, 1, i - 1))>>
                      \o ScanLines(SubSeq(data, i + 1, Len(data)))

\* strings.Trim(line, " \t\r\n")
cutset == {32, 9, 13, 10}

RECURSIVE TrimLeft(_)
TrimLeft(s) == IF s # <<>> /\ Head(s) \in cutset THEN TrimLeft(Tail(s)) ELSE s

RECURSIVE TrimRight(_)
TrimRight(s) ==
    IF s # <<>> /\ s[Len(s)] \in cutset THEN TrimRight(SubSeq(s, 1, Len(s) - 1)) ELSE s

Trim(s) == TrimRight(TrimLeft(s))

\* the line as compared: trimmed when p.diffignorespace is set
ScanText(q, line) == IF q.diffignorespace THEN Trim(line) ELSE line

\* m_lines[line]++
Incr(m, line) ==
    [x \in DOMAIN m \cup {line} |->
        IF x = line THEN (IF line \in DOMAIN m THEN m[line] ELSE 0) + 1 ELSE m[x]]

\* ScanHR without the test of the length of the line
RECURSIVE ScanHR_CountsEmpty(_, _, _, _)
ScanHR_CountsEmpty(q, lines, i, st) ==
    IF i > Len(lines) THEN st
    ELSE ScanHR_CountsEmpty(q, lines, i + 1,
             [m |-> Incr(st.m, ScanText(q, lines[i])), NbLinesHR |-> st.NbLinesHR + 1])

\* the loop over the head revision: st = [m, NbLinesHR]
RECURSIVE ScanHR(_, _, _, _)
ScanHR(q, lines, i, st) ==
    IF i > Len(lines) THEN st
    ELSE LET line == ScanText(q, lines[i])
             m1 == IF Len(line) > 0 THEN Incr(st.m, line) ELSE st.m
         IN  ScanHR(q, lines, i + 1, [m |-> m1, NbLinesHR |-> st.NbLinesHR + 1])

\* ScanWS taking every line found in the map for a carried-over line,
\* without the test of the count that is left
RECURSIVE ScanWS_NoCountTest(_, _, _, _)
ScanWS_NoCountTest(q, lines, i, st) ==
    IF i > Len(lines) THEN st
    ELSE LET line == ScanText(q, lines[i])
             st1 == IF line \in DOMAIN st.m
                    THEN [st EXCEPT !.m[line] = @ - 1]
                    ELSE [st EXCEPT !.AddedLines = @ + 1]
         IN  ScanWS_NoCountTest(q, lines, i + 1, [st1 EXCEPT !.NbLinesWS = @ + 1])

\* the loop over the workspace file: st = [m, AddedLines, NbLinesWS]
RECURSIVE ScanWS(_, _, _, _)
ScanWS(q, lines, i, st) ==
    IF i > Len(lines) THEN st
    ELSE LET line == ScanText(q, lines[i])
             found == line \in DOMAIN st.m
             st1 == IF found
                    THEN (IF st.m[line] <= 0
                          THEN [st EXCEPT !.AddedLines = @ + 1]
                          ELSE [st EXCEPT !.m[line] = @ - 1])
                    ELSE [st EXCEPT !.AddedLines = @ + 1]
         IN  ScanWS(q, lines, i + 1, [st1 EXCEPT !.NbLinesWS = @ + 1])

\* the sum of the values left in the map
RECURSIVE SumMap(_, _)
SumMap(m, D) ==
    IF D = {} THEN 0
    ELSE LET x == CHOOSE y \in D : TRUE IN m[x] + SumMap(m, D \ {x})

\* what became of the temp file when customDiffHRvsWS returns early
TempLeft(g) == IF g.temp.exists THEN "left" ELSE "none"

\* customDiffEnd returning the error of os.Remove
customDiffEnd_RemoveFatal(e, g, hr, ws) ==
    IF e.ws.rderr
    THEN [r |-> [ZeroRes EXCEPT !.NbLinesHR = hr.NbLinesHR,
                                !.AddedLines = ws.AddedLines,
                                !.NbLinesWS = ws.NbLinesWS],
          err |-> "Error parsing the workspace file", cmds |-> g.cmds,
          tmp |-> TempLeft(g)]
    ELSE [r |-> [ZeroRes EXCEPT !.NbLinesHR = hr.NbLinesHR,
                                !.AddedLines = ws.AddedLines,
                                !.NbLinesWS = ws.NbLinesWS,
                                !.RemovedLines = SumMap(ws.m, DOMAIN ws.m)],
          err |-> IF e.rmOK THEN "nil" ELSE "Error deleting temp file",
          cmds |-> g.cmds,
          tmp |-> IF e.rmOK THEN "removed" ELSE "remove failed"]

\* the end of customDiffHRvsWS: g is the result of GetFile, hr and ws the
\* states of the two loops when they end
customDiffEnd(e, g, hr, ws) ==
    IF e.ws.rderr
    THEN [r |-> [ZeroRes EXCEPT !.NbLinesHR = hr.NbLinesHR,
                                !.AddedLines = ws.AddedLines,
                                !.NbLinesWS = ws.NbLinesWS],
          err |-> "Error parsing the workspace file", cmds |-> g.cmds,
          tmp |-> TempLeft(g)]
    ELSE [r |-> [ZeroRes EXCEPT !.NbLinesHR = hr.NbLinesHR,
                                !.AddedLines = ws.AddedLines,
                                !.NbLinesWS = ws.NbLinesWS,
                                !.RemovedLines = SumMap(ws.m, DOMAIN ws.m)],
          err |-> "nil", cmds |-> g.cmds,
          tmp |-> IF e.rmOK THEN "removed" ELSE "remove failed"]

\* the workspace loop, after the head revision loop ended in state hr
customDiffWS(q, e, g, hr) ==
    IF g.temp.rderr
    THEN [r |-> [ZeroRes EXCEPT !.NbLinesHR = hr.NbLinesHR],
          err |-> "Error parsing head rev file", cmds |-> g.cmds,
          tmp |-> TempLeft(g)]
    ELSE customDiffEnd(e, g, hr,
             ScanWS(q, ScanLines(e.ws.data), 1,
                    [m |-> hr.m, AddedLines |-> 0, NbLinesWS |-> 0]))

\* the head revision loop, after GetFile returned g
customDiffHR(q, e, g) ==
    IF g.err # "nil"
    THEN [r |-> ZeroRes, err |-> "Error getting head rev", cmds |-> g.cmds,
          tmp |-> TempLeft(g)]
    ELSE IF ~e.openTmpOK
    THEN [r |-> ZeroRes, err |-> "Error getting head rev", cmds |-> g.cmds,
          tmp |-> TempLeft(g)]
    ELSE customDiffWS(q, e, g,
             ScanHR(q, ScanLines(g.temp.data), 1,
                    [m |-> [x \in {} |-> 0], NbLinesHR |-> 0]))

\* e.ws: the workspace file; e.openTmpOK: whether os.Open of the temp file
\* succeeds; e.rmOK: whether os.Remove of the temp file succeeds.  The
\* result's tmp tells what became of the temp file: "none" (never created),
\* "left" (on disk, removal not attempted), "removed", "remove failed".
customDiffHRvsWS(q, fileInDepot, fileInWS, e) ==
    IF ~e.ws.exists
    THEN [r |-> ZeroRes, err |-> "open error", cmds |-> <<>>, tmp |-> "none"]
    ELSE customDiffHR(q, e, GetFile(q, fileInDepot, 0, e))

(* ----------------------------- DiffHRvsWS ----------------------------- *)

\* the branch the switch on algo takes
SwitchAlgo_RunsCustom(algo) == IF algo = "p4" THEN "p4" ELSE "custom"

SwitchAlgo(algo) ==
    CASE algo = "p4" -> "p4"
      [] algo = "custom" -> "custom"
      [] OTHER -> "default"

\* the result of the "p4" branch, from res (the labels) and the r returned by
\* p4DiffHRvsWS
P4Result_ReturnsR(res, r) ==
    [r EXCEPT !.NbLinesHR = r.NbLinesWS - r.AddedLines + r.RemovedLines]

P4Result(res, r) ==
    LET res1 == IF res.Utf16crlf
                THEN [res EXCEPT !.AddedLines = r.AddedLines * 2,
                                 !.RemovedLines = r.RemovedLines * 2]
                ELSE res
    IN  [res1 EXCEPT !.NbLinesHR = r.NbLinesWS - r.AddedLines + r.RemovedLines]

\* CustomResult counting an added line paired with a removed line as a
\* changed line
CustomResult_PairsChanges(res, r) ==
    [res EXCEPT !.AddedLines = r.AddedLines, !.RemovedLines = r.RemovedLines,
                !.NbLinesHR = r.NbLinesHR, !.NbLinesWS = r.NbLinesWS,
                !.ChangedLines = IF r.AddedLines < r.RemovedLines
                                 THEN r.AddedLines ELSE r.RemovedLines]

\* the result of the "custom" branch
CustomResult(res, r) ==
    [res EXCEPT !.AddedLines = r.AddedLines, !.RemovedLines = r.RemovedLines,
                !.NbLinesHR = r.NbLinesHR, !.NbLinesWS = r.NbLinesWS]

\* the "p4" branch: d is the result of p4DiffHRvsWS
DiffP4(res, w, d) ==
    IF d.err # "nil"
    THEN [res |-> d.r, err |-> d.err, ran |-> {"p4"},
          cmds |-> w.cmds \o d.cmds, tmp |-> "none"]
    ELSE [res |-> P4Result(res, d.r), err |-> "nil", ran |-> {"p4"},
          cmds |-> w.cmds \o d.cmds, tmp |-> "none"]

\* the "custom" branch: c is the result of customDiffHRvsWS
DiffCustom(res, w, c) ==
    IF c.err # "nil"
    THEN [res |-> res, err |-> c.err, ran |-> {"custom"},
          cmds |-> w.cmds \o c.cmds, tmp |-> c.tmp]
    ELSE [res |-> CustomResult(res, c.r), err |-> "nil", ran |-> {"custom"},
          cmds |-> w.cmds \o c.cmds, tmp |-> c.tmp]

\* the switch, after GetP4Where returned w and res got its labels
DiffSwitch(q, algo, depotFile, e, w, res) ==
    IF w.err # "nil"
    THEN [res |-> res, err |-> w.err, ran |-> {}, cmds |-> w.cmds, tmp |-> "none"]
    ELSE CASE SwitchAlgo(algo) = "p4" ->
                  DiffP4(res, w, p4DiffHRvsWS(q, depotFile, res.FileWS, e))
           [] SwitchAlgo(algo) = "custom" ->
                  DiffCustom(res, w, customDiffHRvsWS(q, depotFile, res.FileWS, e))
           [] OTHER ->
                  [res |-> res, err |-> "Invalid algorithm name", ran |-> {},
                   cmds |-> w.cmds, tmp |-> "none"]

\* res.FileHR = depotFile; res.FileWS, err = p.GetP4Where(depotFile)
DiffLabels(q, algo, depotFile, e, w) ==
    DiffSwitch(q, algo, depotFile, e, w,
               [ZeroRes EXCEPT !.FileHR = depotFile, !.FileWS = w.fileName])

DiffHRvsWS(q, algo, depotFile, e) ==
    DiffLabels(q, algo, depotFile, e, GetP4Where(q, depotFile, e))

(* ------------------------- the environment ---------------------------- *)

Tok(n) == [v |-> n, fits |-> TRUE]
HugeTok == [v |-> 0, fits |-> FALSE]

Users == {"", "bob"}
Workspaces == {"", "ws1"}
DepotFiles == {"//depot/a.txt"}
Algos == {"p4", "custom", "P4", ""}

File(data) == [exists |-> TRUE, data |-> data, rderr |-> FALSE]
NoFile == [exists |-> FALSE, data |-> <<>>, rderr |-> FALSE]

\* output of "p4 -ztag where"
WhereLine(tag, val, eol) == [tag |-> tag, val |-> val, eol |-> eol]
WhereHead == <<WhereLine("depotFile", "//depot/a.txt", "\n"),
               WhereLine("clientFile", "//ws1/a.txt", "\n")>>
WhereOK == {[ok |-> TRUE, lines |-> Append(WhereHead, WhereLine("path", "/ws/a.txt", eol))] :
                eol \in {"\n", "\r\n"}}
WhereBad == {[ok |-> FALSE, lines |-> <<>>], [ok |-> TRUE, lines |-> WhereHead]}

\* output of "p4 diff -ds"
DLine(kw, depot, ws, chunks, n1, n2, pair) ==
    [kw |-> kw, depot |-> depot, ws |-> ws, chunks |-> chunks, n1 |-> n1,
     n2 |-> n2, pair |-> pair]
Hdr(ws) == DLine("hdr", "//depot/a.txt", ws, Tok(0), Tok(0), Tok(0), FALSE)
Add(n) == DLine("add", "", "", Tok(1), n, Tok(0), FALSE)
Del(n) == DLine("deleted", "", "", Tok(1), n, Tok(0), FALSE)
Chg(n1, n2) == DLine("changed", "", "", Tok(1), n1, n2, TRUE)
Chg1(n1) == DLine("changed", "", "", Tok(1), n1, Tok(0), FALSE)
Noise == DLine("noise", "", "", Tok(0), Tok(0), Tok(0), FALSE)

Report(a, d, c1, c2) == <<Hdr("c:\\ws\\a.txt"), Add(a), Del(d), Chg(c1, c2)>>

WellFormed ==
    {Report(Tok(a), Tok(d), Tok(2), Tok(3)) : a \in 0..MaxCount, d \in 0..MaxCount}
        \cup {Report(Tok(0), Tok(0), Tok(0), Tok(0)),
              <<Noise>> \o Report(Tok(1), Tok(2), Tok(1), Tok(1)) \o <<Noise>>,
              <<Hdr("/ws/a.txt"), Add(Tok(1)), Del(Tok(0)), Chg(Tok(0), Tok(0))>>}
OutOfRange ==
    {Report(HugeTok, Tok(1), Tok(2), Tok(3)), Report(Tok(1), HugeTok, Tok(2), Tok(3)),
     Report(Tok(1), Tok(1), HugeTok, Tok(3))}
Malformed ==
    {<<>>, <<Noise>>,
     <<Hdr("/ws/a.txt"), Add(Tok(1)), Del(Tok(2))>>,
     <<Hdr("/ws/a.txt"), Add(Tok(1)), Del(Tok(2)), Chg1(Tok(3))>>,
     <<Hdr("/ws/a.txt"), Del(Tok(2)), Add(Tok(1)), Chg(Tok(2), Tok(3))>>,
     <<Add(Tok(1)), Del(Tok(2)), Chg(Tok(2), Tok(3))>>,
     <<Hdr("/ws/a.txt"), Noise, Add(Tok(1)), Del(Tok(2)), Chg(Tok(2), Tok(3))>>}

DiffRan == {[ok |-> TRUE, lines |-> l] : l \in WellFormed \cup OutOfRange \cup Malformed}
DiffFailed == [ok |-> FALSE, lines |-> <<Noise>>]

\* output of "p4 files -e"
FilesOK == [ok |-> TRUE, noSuch |-> FALSE, lines |-> <<[rev |-> Tok(2), cl |-> Tok(3)]>>]
FilesBad ==
    {[ok |-> FALSE, noSuch |-> FALSE, lines |-> <<>>],
     [ok |-> TRUE, noSuch |-> TRUE, lines |-> <<>>],
     [ok |-> TRUE, noSuch |-> FALSE, lines |-> <<>>],
     [ok |-> TRUE, noSuch |-> FALSE, lines |-> <<[rev |-> HugeTok, cl |-> Tok(3)]>>],
     [ok |-> TRUE, noSuch |-> FALSE,
      lines |-> <<[rev |-> Tok(1), cl |-> Tok(3)], [rev |-> Tok(2), cl |-> HugeTok]>>]}

\* workspace files of the summary-diff path: every byte string
ByteSet == {0, 10, 13}
ByteFiles(n) == SeqUpTo(ByteSet, n)

\* files of the multiset diff: lines of LineSet, each ended by a line feed,
\* the last one ended or not
LineSet == {<<>>, <<97>>, <<32>>, <<32, 97>>}

RECURSIVE JoinLines(_, _)
JoinLines(ls, final) ==
    IF ls = <<>> THEN <<>>
    ELSE IF Len(ls) = 1 THEN Head(ls) \o (IF final THEN <<10>> ELSE <<>>)
    ELSE Head(ls) \o <<10>> \o JoinLines(Tail(ls), final)

LineFiles(n) == {JoinLines(ls, final) : ls \in SeqUpTo(LineSet, n), final \in BOOLEAN}

\* an environment in which every step succeeds
GoodEnv(wsData, hrData, diff) ==
    [where |-> CHOOSE w \in WhereOK : w.lines[3].eol = "\n",
     ws |-> File(wsData),
     diff |-> diff,
     files |-> FilesOK,
     tmp |-> [createOK |-> TRUE, name |-> "perforce_getfile_1"],
     print |-> [ok |-> TRUE, wrote |-> TRUE, data |-> hrData],
     statOK |-> TRUE, hrRderr |-> FALSE, openTmpOK |-> TRUE, rmOK |-> TRUE]

Env0 == GoodEnv(<<>>, <<>>, DiffFailed)

\* the failures of the steps of GetFile and of opening its temp file
GetFileBad ==
    {[Env0 EXCEPT !.files = f] : f \in FilesBad}
        \cup {[Env0 EXCEPT !.tmp.createOK = FALSE],
              [Env0 EXCEPT !.print.ok = FALSE],
              [Env0 EXCEPT !.print.ok = FALSE, !.print.wrote = FALSE],
              [Env0 EXCEPT !.print.wrote = FALSE],
              [Env0 EXCEPT !.statOK = FALSE],
              [Env0 EXCEPT !.openTmpOK = FALSE]}

\* The environments of a call of DiffHRvsWS with algorithm algo come in
\* kinds; an environment of kind k is MkEnv(k, a, b, x) for a workspace file
\* a of EnvWS(k), a head revision b of EnvHR(k) and a variant x of EnvX(k).
EnvKinds(algo) ==
    {"where"} \cup (CASE algo = "p4" -> {"p4", "p4 read error", "no file"}
                      [] algo = "custom" -> {"custom", "custom failure", "no file"}
                      [] OTHER -> {})

EnvWS(k) ==
    CASE k \in {"p4", "p4 read error"} -> ByteFiles(MaxBytes)
      [] k = "custom" -> LineFiles(MaxLinesOrch)
      [] OTHER -> {<<>>}

EnvHR(k) == IF k = "custom" THEN LineFiles(MaxLinesOrch) ELSE {<<>>}

EnvX(k) ==
    CASE k = "where" -> WhereBad \cup WhereOK
      [] k = "p4" -> DiffRan \cup {DiffFailed}
      [] k = "custom" -> {"ok", "remove fails", "head read error", "ws read error"}
      [] k = "custom failure" -> GetFileBad
      [] OTHER -> {"ok"}

MkEnv(k, a, b, x) ==
    CASE k = "where" -> [Env0 EXCEPT !.where = x]
      [] k = "p4" -> GoodEnv(a, b, x)
      [] k = "p4 read error" ->
             [Env0 EXCEPT !.ws = [exists |-> TRUE, data |-> a, rderr |-> TRUE]]
      [] k = "no file" -> [Env0 EXCEPT !.ws = NoFile]
      [] k = "custom" ->
             [GoodEnv(a, b, DiffFailed) EXCEPT
                 !.rmOK = (x # "remove fails"),
                 !.hrRderr = (x = "head read error"),
                 !.ws.rderr = (x = "ws read error")]
      [] k = "custom failure" -> x

(* ------------------------------ actions ------------------------------- *)

NoCall == [op |-> "", algo |-> "", depotFile |-> "", rev |-> 0, changeList |-> 0]
NoRet == [res |-> ZeroRes, err |-> "nil", ran |-> {}, cmds |-> <<>>, tmp |-> "none"]

\* New(user, workspace): the instance, before any call
Init ==
    /\ p \in [user : Users, workspace : Workspaces, diffignorespace : BOOLEAN]
    /\ pc = "idle"
    /\ env = [call |-> NoCall, e |-> Env0]
    /\ ret = NoRet

SetUser(user) ==
    /\ pc = "idle"
    /\ p' = [p EXCEPT !.user = user]
    /\ UNCHANGED <<pc, env, ret>>

SetWorkspace(workspace) ==
    /\ pc = "idle"
    /\ p' = [p EXCEPT !.workspace = workspace]
    /\ UNCHANGED <<pc, env, ret>>

\* a call of DiffHRvsWS(algo, depotFile), for every algo and depotFile and
\* every environment e the call can run in
CallDiffHRvsWS ==
    /\ pc = "idle"
    /\ \E algo \in Algos, depotFile \in DepotFiles :
           \E k \in EnvKinds(algo) :
               \E a \in EnvWS(k), b \in EnvHR(k), x \in EnvX(k) :
                   LET e == MkEnv(k, a, b, x)
                   IN  /\ env' = [call |-> [NoCall EXCEPT !.op = "DiffHRvsWS",
                                                         !.algo = algo,
                                                         !.depotFile = depotFile],
                                  e |-> e]
                       /\ ret' = DiffHRvsWS(p, algo, depotFile, e)
    /\ pc' = "returned"
    /\ UNCHANGED p

\* the caller drops the result; the instance is ready for the next call
Discard ==
    /\ pc = "returned"
    /\ pc' = "idle"
    /\ env' = [call |-> NoCall, e |-> Env0]
    /\ ret' = NoRet
    /\ UNCHANGED p

Next ==
    \/ \E user \in Users : SetUser(user)
    \/ \E workspace \in Workspaces : SetWorkspace(workspace)
    \/ CallDiffHRvsWS
    \/ Discard

Spec == Init /\ [][Next]_vars

(* ------------- the multiset diff called on its own -------------------- *)

InitCustom ==
    /\ p \in [user : {"bob"}, workspace : {"ws1"}, diffignorespace : BOOLEAN]
    /\ pc = "idle"
    /\ env = [call |-> NoCall, e |-> Env0]
    /\ ret = NoRet

\* the files given to the multiset diff called on its own
CustomFiles == LineFiles(MaxLines)

\* a call of customDiffHRvsWS(fileInDepot, fileInWS) from within the package,
\* on every workspace file a and head revision b, in an environment where
\* every step succeeds
CallCustomDiffHRvsWS ==
    /\ pc = "idle"
    /\ \E depotFile \in DepotFiles, a \in CustomFiles, b \in CustomFiles :
           \E e \in {MkEnv("custom", a, b, "ok")} :
               \E c \in {customDiffHRvsWS(p, depotFile, "/ws/a.txt", e)} :
                   /\ env' = [call |-> [NoCall EXCEPT !.op = "customDiffHRvsWS",
                                                     !.algo = "custom",
                                                     !.depotFile = depotFile],
                              e |-> e]
                   /\ ret' = [res |-> c.r, err |-> c.err, ran |-> {"custom"},
                              cmds |-> c.cmds, tmp |-> c.tmp]
    /\ pc' = "returned"
    /\ UNCHANGED p

NextCustom ==
    \/ CallCustomDiffHRvsWS
    \/ Discard

SpecCustom == InitCustom /\ [][NextCustom]_vars

(* ------------------- the wrapper calls on their own -------------------- *)

\* a digit group that matched no digit: strconv.Atoi fails on it, giving 0
NoDigits == [v |-> 0, fits |-> FALSE]

\* the file lines of an answer of "p4 describe -s"
CLFile(name, rev) == [name |-> name, rev |-> rev, action |-> "edit"]
CLFiles == {CLFile(name, rev) : name \in {"//depot/a.txt", "//depot/b.txt"},
                                rev \in {Tok(1), NoDigits}}

\* an answer of "p4 describe -s" with its header
Describe(clnb, pending, hasList, files) ==
    [ok |-> TRUE, noSuch |-> FALSE, hdr |-> TRUE, clnb |-> clnb, user |-> "bob",
     workspace |-> "ws1", date |-> "2020/09/20 21:02:41", pending |-> pending,
     comment |-> "Test diff", hasList |-> hasList, files |-> files]

\* the answers without header: the command fails, the change list does not
\* exist, the output is not understood
DescribeBad ==
    {[Describe(NoDigits, FALSE, FALSE, <<>>) EXCEPT !.ok = FALSE, !.hdr = FALSE],
     [Describe(NoDigits, FALSE, FALSE, <<>>) EXCEPT !.noSuch = TRUE, !.hdr = FALSE],
     [Describe(NoDigits, FALSE, FALSE, <<>>) EXCEPT !.hdr = FALSE]}

\* a call of GetHeadRev(depotFileName), whatever "p4 files" answers
CallGetHeadRev ==
    /\ pc = "idle"
    /\ \E depotFile \in DepotFiles, f \in FilesBad \cup {FilesOK} :
           LET e == [Env0 EXCEPT !.files = f]
           IN  /\ env' = [call |-> [NoCall EXCEPT !.op = "GetHeadRev",
                                                 !.depotFile = depotFile],
                          e |-> e]
               /\ ret' = GetHeadRev(p, depotFile, e)
    /\ pc' = "returned"
    /\ UNCHANGED p

\* a call of GetFile(depotFile, rev): every step succeeding, on every head
\* revision content, or one step failing
CallGetFile ==
    /\ pc = "idle"
    /\ \E depotFile \in DepotFiles, rev \in 0..MaxRev :
           \E e \in GetFileBad \cup {GoodEnv(<<>>, b, DiffFailed) : b \in LineFiles(MaxLinesOrch)} :
               /\ env' = [call |-> [NoCall EXCEPT !.op = "GetFile",
                                                 !.depotFile = depotFile,
                                                 !.rev = rev],
                          e |-> e]
               /\ ret' = GetFile(p, depotFile, rev, e)
    /\ pc' = "returned"
    /\ UNCHANGED p

\* a call of GetCLContent(changeList), whatever "p4 describe -s" answers
CallGetCLContent ==
    /\ pc = "idle"
    /\ \E changeList \in 1..MaxCL :
           \E d \in DescribeBad \cup
                   {Describe(clnb, pending, FALSE, <<>>) :
                        clnb \in {Tok(n) : n \in 1..MaxCL} \cup {NoDigits},
                        pending \in BOOLEAN} \cup
                   {Describe(clnb, pending, TRUE, files) :
                        clnb \in {Tok(n) : n \in 1..MaxCL} \cup {NoDigits},
                        pending \in BOOLEAN, files \in SeqUpTo(CLFiles, MaxFiles)} :
               /\ env' = [call |-> [NoCall EXCEPT !.op = "GetCLContent",
                                                 !.changeList = changeList],
                          e |-> [describe |-> d]]
               /\ ret' = GetCLContent(p, changeList, [describe |-> d])
    /\ pc' = "returned"
    /\ UNCHANGED p

\* a call of GetP4Where(depotFile), whatever "p4 where" answers
CallGetP4Where ==
    /\ pc = "idle"
    /\ \E depotFile \in DepotFiles, w \in WhereBad \cup WhereOK :
           LET e == [Env0 EXCEPT !.where = w]
           IN  /\ env' = [call |-> [NoCall EXCEPT !.op = "GetP4Where",
                                                 !.depotFile = depotFile],
                          e |-> e]
               /\ ret' = GetP4Where(p, depotFile, e)
    /\ pc' = "returned"
    /\ UNCHANGED p

\* a form printed by "p4 change -o"
ChangeForm(change, clnb, crlf, hasFiles, files) ==
    [ok |-> TRUE, lines |-> 8 + Len(files), crlf |-> crlf, change |-> change,
     clnb |-> clnb, date |-> "2020/09/20 21:02:41", client |-> "ws1",
     user |-> "bob", status |-> IF change = "new" THEN "new" ELSE "pending",
     type |-> "public", descr |-> <<"Test diff">>, hasFiles |-> hasFiles,
     files |-> files]

\* the file lines of a form
SpecFiles == {[name |-> name, action |-> "edit"] : name \in {"//depot/a.txt", "//depot/b.txt"}}

ChangeForms ==
    {[ChangeForm("none", NoDigits, FALSE, FALSE, <<>>) EXCEPT !.ok = FALSE]}
        \cup {ChangeForm(change, NoDigits, crlf, FALSE, <<>>) :
                  change \in {"none", "new", "number"}, crlf \in BOOLEAN}
        \cup {ChangeForm("number", Tok(n), crlf, TRUE, files) :
                  n \in 1..MaxCL, crlf \in BOOLEAN, files \in SeqUpTo(SpecFiles, MaxFiles)}

\* a call of GetCLSpecProperties(cl), whatever "p4 change -o" answers
CallGetCLSpecProperties ==
    /\ pc = "idle"
    /\ \E cl \in 0..MaxCL, f \in ChangeForms :
           /\ env' = [call |-> [NoCall EXCEPT !.op = "GetCLSpecProperties",
                                             !.changeList = cl],
                      e |-> [change |-> f]]
           /\ ret' = GetCLSpecProperties(p, cl, [change |-> f])
    /\ pc' = "returned"
    /\ UNCHANGED p

\* the properties handed to PutCLSpecProperties: those GetCLSpecProperties
\* returns for a form
PutInputs ==
    {GetCLSpecFields(f, [ZeroCLSpec EXCEPT !.Eol = "\n", !.ChangeList = cl], <<>>).properties :
         f \in {ChangeForm("new", NoDigits, FALSE, TRUE, files) :
                    files \in SeqUpTo(SpecFiles, MaxFiles)},
         cl \in {-1} \cup 1..MaxCL}

\* the answers of "p4 change -i"
PutAnswers ==
    {[pipeOK |-> pipeOK, ok |-> ok, matched |-> matched, cl |-> cl, nbfiles |-> Tok(0)] :
         pipeOK \in BOOLEAN, ok \in BOOLEAN, matched \in BOOLEAN,
         cl \in {Tok(1), NoDigits}}

\* a call of PutCLSpecProperties(properties), whatever "p4 change -i" answers
CallPutCLSpecProperties ==
    /\ pc = "idle"
    /\ \E properties \in PutInputs, a \in PutAnswers :
           /\ env' = [call |-> [NoCall EXCEPT !.op = "PutCLSpecProperties"],
                      e |-> [put |-> a, properties |-> properties]]
           /\ ret' = PutCLSpecProperties(p, properties, [put |-> a])
    /\ pc' = "returned"
    /\ UNCHANGED p

NextWrappers ==
    \/ \E user \in Users : SetUser(user)
    \/ CallGetHeadRev
    \/ CallGetFile
    \/ CallGetCLContent
    \/ CallGetP4Where
    \/ CallGetCLSpecProperties
    \/ CallPutCLSpecProperties
    \/ Discard

SpecWrappers == Init /\ [][NextWrappers]_vars

(* ------------- the multiset diff, one loop iteration at a time --------- *)

\* the lines the two scanners yield
ScanInputs == SeqUpTo(LineSet, MaxScan)

\* customDiffHRvsWS reaches its first loop, on head revision lines hr and
\* workspace lines ws: the map is empty, the counts are 0.  ret is the state
\* of the loops, [m, NbLinesHR, AddedLines, NbLinesWS, RemovedLines, i], i
\* being the line the scanner yields next.
ScanStart ==
    /\ pc = "idle"
    /\ \E hr \in ScanInputs, ws \in ScanInputs :
           env' = [call |-> [NoCall EXCEPT !.op = "customDiffHRvsWS"],
                   e |-> [hr |-> hr, ws |-> ws]]
    /\ ret' = [m |-> <<>>, NbLinesHR |-> 0, AddedLines |-> 0, NbLinesWS |-> 0,
               RemovedLines |-> 0, i |-> 1]
    /\ pc' = "scanHR"
    /\ UNCHANGED p

\* one iteration of the loop over the head revision
ScanHRStep ==
    /\ pc = "scanHR"
    /\ ret.i <= Len(env.e.hr)
    /\ \E st \in {ScanHR(p, <<env.e.hr[ret.i]>>, 1,
                          [m |-> ret.m, NbLinesHR |-> ret.NbLinesHR])} :
           ret' = [ret EXCEPT !.m = st.m, !.NbLinesHR = st.NbLinesHR, !.i = @ + 1]
    /\ UNCHANGED <<p, pc, env>>

\* the head revision is read: the loop over the workspace file starts
ScanHREnd ==
    /\ pc = "scanHR"
    /\ ret.i > Len(env.e.hr)
    /\ ret' = [ret EXCEPT !.i = 1]
    /\ pc' = "scanWS"
    /\ UNCHANGED <<p, env>>

\* one iteration of the loop over the workspace file
ScanWSStep ==
    /\ pc = "scanWS"
    /\ ret.i <= Len(env.e.ws)
    /\ \E st \in {ScanWS(p, <<env.e.ws[ret.i]>>, 1,
                          [m |-> ret.m, AddedLines |-> ret.AddedLines,
                           NbLinesWS |-> ret.NbLinesWS])} :
           ret' = [ret EXCEPT !.m = st.m, !.AddedLines = st.AddedLines,
                              !.NbLinesWS = st.NbLinesWS, !.i = @ + 1]
    /\ UNCHANGED <<p, pc, env>>

\* the workspace file is read: what is left in the map is summed, and the
\* function returns
ScanWSEnd ==
    /\ pc = "scanWS"
    /\ ret.i > Len(env.e.ws)
    /\ ret' = [ret EXCEPT !.RemovedLines = SumMap(ret.m, DOMAIN ret.m)]
    /\ pc' = "returned"
    /\ UNCHANGED <<p, env>>

NextScan ==
    \/ ScanStart
    \/ ScanHRStep
    \/ ScanHREnd
    \/ ScanWSStep
    \/ ScanWSEnd
    \/ Discard

SpecScan == InitCustom /\ [][NextScan]_vars

(* -------------------- lineCounter called on its own -------------------- *)

\* The chunks of data cut after the positions of cuts.
RECURSIVE Chunks(_, _, _)
Chunks(data, cuts, from) ==
    IF from > Len(data) THEN <<>>
    ELSE LET later == {c \in cuts : c >= from}
             to == IF later = {} THEN Len(data)
                   ELSE CHOOSE c \in later : \A d \in later : c <= d
         IN  <<SubSeq(data, from, to)>> \o Chunks(data, cuts, to + 1)

\* The results of the successive r.Read calls of an io.Reader that delivers
\* data in the chunks cut at cuts and then ends with last ("EOF", or a read
\* error): with the last chunk when withData is set, otherwise in a read of
\* its own that delivers no byte.
ReadsOf(data, cuts, last, withData) ==
    LET ch == Chunks(data, cuts, 1)
        n == Len(ch)
    IN  IF withData /\ n > 0
        THEN [k \in 1..n |-> [data |-> ch[k], err |-> IF k = n THEN last ELSE "nil"]]
        ELSE [k \in 1..n |-> [data |-> ch[k], err |-> "nil"]]
                 \o <<[data |-> <<>>, err |-> last]>>

\* the byte stream the reads deliver
RECURSIVE Stream(_)
Stream(reads) == IF reads = <<>> THEN <<>> ELSE Head(reads).data \o Stream(Tail(reads))

\* a call of lineCounter(r) on every reader r: every byte stream, cut into
\* chunks in every way, ended by end-of-stream or by a read error
CallLineCounter ==
    /\ pc = "idle"
    /\ \E data \in ByteFiles(MaxStream), last \in {"EOF", "EIO"}, withData \in BOOLEAN :
           \E cuts \in SUBSET (1..(Len(data) - 1)) :
               LET reads == ReadsOf(data, cuts, last, withData)
               IN  /\ env' = [call |-> [NoCall EXCEPT !.op = "lineCounter"],
                              e |-> [reads |-> reads]]
                   /\ ret' = lineCounter(reads)
    /\ pc' = "returned"
    /\ UNCHANGED p

NextLineCounter ==
    \/ CallLineCounter
    \/ Discard

SpecLineCounter == InitCustom /\ [][NextLineCounter]_vars

(* ------------- several multiset diffs at the same time ---------------- *)

\* The invocations share the Perforce object, which they only read, and the
\* temp directory. pc[i] is where invocation i stands, ret[i] what it holds,
\* env.fs the temp directory: for each name whether a file exists, which
\* invocation created it, which one wrote it last (0 for none), and whose
\* head revision it holds.
Procs == 1..MaxProcs
TempNames == 1..MaxNames

NoScratch == [exists |-> FALSE, creator |-> 0, writer |-> 0, data |-> ""]

\* tempHR is 0 before GetFile returned a name; read is the file as the scan
\* found it, removed the file as os.Remove found it
NoInvocation ==
    [fileInDepot |-> "", tempHR |-> 0, read |-> NoScratch, removed |-> NoScratch,
     err |-> "nil"]

\* a variant of TempFile that does not look whether the name is taken
TempFile_NameTaken(fs) == TempNames

\* the names ioutil.TempFile("", "perforce_getfile_") can return: it creates
\* the file with O_CREATE|O_EXCL and tries another name when one is taken
TempFile(fs) == {n \in TempNames : ~fs[n].exists}

InitConc ==
    /\ p \in [user : {"bob"}, workspace : {"ws1"}, diffignorespace : BOOLEAN]
    /\ pc = [i \in Procs |-> "idle"]
    /\ env = [fs |-> [n \in TempNames |-> NoScratch]]
    /\ ret = [i \in Procs |-> NoInvocation]

\* invocation i goes to location l, or returns err
ConcGoto(i, l, r) ==
    /\ pc' = [pc EXCEPT ![i] = l]
    /\ ret' = [ret EXCEPT ![i] = r]

ConcFail(i, err) == ConcGoto(i, "returned", [ret[i] EXCEPT !.err = err])

\* customDiffHRvsWS(fileInDepot, fileInWS) is called and opens the workspace
\* file
ConcCall(i) ==
    /\ pc[i] = "idle"
    /\ \E fileInDepot \in DepotFiles, openOK \in BOOLEAN :
           LET r == [NoInvocation EXCEPT !.fileInDepot = fileInDepot]
           IN  IF openOK THEN ConcGoto(i, "GetHeadRev", r)
               ELSE ConcGoto(i, "returned", [r EXCEPT !.err = "open"])
    /\ UNCHANGED <<p, env>>

\* GetFile(fileInDepot, 0) asks for the head revision
ConcGetHeadRev(i) ==
    /\ pc[i] = "GetHeadRev"
    /\ \E ok \in BOOLEAN :
           IF ok THEN ConcGoto(i, "TempFile", ret[i])
           ELSE ConcFail(i, "Error getting head rev")
    /\ UNCHANGED <<p, env>>

\* GetFile creates the temp file and closes it
ConcTempFile(i) ==
    /\ pc[i] = "TempFile"
    /\ \/ \E n \in TempFile(env.fs) :
              /\ env' = [env EXCEPT !.fs[n] = [exists |-> TRUE, creator |-> i,
                                               writer |-> 0, data |-> ""]]
              /\ ConcGoto(i, "print", [ret[i] EXCEPT !.tempHR = n])
       \/ /\ ConcFail(i, "Error getting head rev")
          /\ UNCHANGED env
    /\ UNCHANGED p

\* the file at name n once "p4 print -o" of invocation i wrote it
Printed(fs, n, i, data) ==
    [exists |-> TRUE, creator |-> IF fs[n].exists THEN fs[n].creator ELSE i,
     writer |-> i, data |-> data]

\* GetFile runs "p4 print -k -q -o tempFile depotFile#rev"
ConcPrint(i) ==
    /\ pc[i] = "print"
    /\ \E ok \in BOOLEAN, wrote \in BOOLEAN :
           /\ env' = IF wrote
                     THEN [env EXCEPT !.fs[ret[i].tempHR] =
                              Printed(env.fs, ret[i].tempHR, i, ret[i].fileInDepot)]
                     ELSE env
           /\ IF ok THEN ConcGoto(i, "Stat", ret[i])
              ELSE ConcFail(i, "Error getting head rev")
    /\ UNCHANGED p

\* GetFile checks with os.Stat that the file is there, and returns
ConcStat(i) ==
    /\ pc[i] = "Stat"
    /\ \E ok \in BOOLEAN :
           IF ok /\ env.fs[ret[i].tempHR].exists THEN ConcGoto(i, "Open", ret[i])
           ELSE ConcFail(i, "Error getting head rev")
    /\ UNCHANGED <<p, env>>

\* customDiffHRvsWS opens the temp file
ConcOpen(i) ==
    /\ pc[i] = "Open"
    /\ \E ok \in BOOLEAN :
           IF ok /\ env.fs[ret[i].tempHR].exists THEN ConcGoto(i, "Scan", ret[i])
           ELSE ConcFail(i, "Error getting head rev")
    /\ UNCHANGED <<p, env>>

\* customDiffHRvsWS scans the temp file, then the workspace file
ConcScan(i) ==
    /\ pc[i] = "Scan"
    /\ \E ok \in BOOLEAN :
           LET r == [ret[i] EXCEPT !.read = env.fs[ret[i].tempHR]]
           IN  IF ok THEN ConcGoto(i, "Remove", r)
               ELSE ConcGoto(i, "returned", [r EXCEPT !.err = "Error parsing"])
    /\ UNCHANGED <<p, env>>

\* customDiffHRvsWS removes the temp file; a failure is logged
ConcRemove(i) ==
    /\ pc[i] = "Remove"
    /\ \E ok \in BOOLEAN :
           IF ok /\ env.fs[ret[i].tempHR].exists
           THEN /\ env' = [env EXCEPT !.fs[ret[i].tempHR] = NoScratch]
                /\ ConcGoto(i, "returned",
                            [ret[i] EXCEPT !.removed = env.fs[ret[i].tempHR]])
           ELSE /\ env' = env
                /\ ConcGoto(i, "returned", ret[i])
    /\ UNCHANGED p

\* the caller takes the result
ConcDiscard(i) ==
    /\ pc[i] = "returned"
    /\ ConcGoto(i, "idle", NoInvocation)
    /\ UNCHANGED <<p, env>>

NextConc ==
    \/ \E i \in Procs : ConcCall(i)
    \/ \E i \in Procs : ConcGetHeadRev(i)
    \/ \E i \in Procs : ConcTempFile(i)
    \/ \E i \in Procs : ConcPrint(i)
    \/ \E i \in Procs : ConcStat(i)
    \/ \E i \in Procs : ConcOpen(i)
    \/ \E i \in Procs : ConcScan(i)
    \/ \E i \in Procs : ConcRemove(i)
    \/ \E i \in Procs : ConcDiscard(i)

SpecConc == InitConc /\ [][NextConc]_vars

(* ------------------------------ claims -------------------------------- *)

\* a call of op has returned, or panicked
Returned(op) == pc = "returned" /\ env.call.op = op

\* what the inner calls of the call that returned gave
WhereRet == GetP4Where(p, env.call.depotFile, env.e)
P4Ret == p4DiffHRvsWS(p, env.call.depotFile, WhereRet.fileName, env.e)
LcRet == lineCounter(Reads(env.e.ws))

\* DiffHRvsWS with algo "p4" has returned a nil error
P4Success == Returned("DiffHRvsWS") /\ env.call.algo = "p4" /\ ret.err = "nil"

\* the lines of a are the lines of b in some order
Occurrences(s, x) == Cardinality({i \in 1..Len(s) : s[i] = x})
IsPermutation(s, t) ==
    /\ Len(s) = Len(t)
    /\ \A i \in 1..Len(s) : Occurrences(s, s[i]) = Occurrences(t, s[i])

\* the file whose lines are the lines of data in reverse order
RECURSIVE Reverse(_)
Reverse(s) == IF s = <<>> THEN <<>> ELSE Append(Reverse(Tail(s)), Head(s))
ReverseLines(data) == JoinLines(Reverse(ScanLines(data)), TRUE)

\* C1: every successful DiffHRvsWS call with algo "p4" returns a result with
\* NbLinesHR = NbLinesWS - AddedLines + RemovedLines.
C1_HeadCountIdentity ==
    P4Success =>
        ret.res.NbLinesHR = ret.res.NbLinesWS - ret.res.AddedLines + ret.res.RemovedLines

\* C2: on a workspace file not detected as UTF-16 CR/LF, a successful
\* DiffHRvsWS call with algo "p4" returns the added, removed and changed line
\* counts that p4DiffHRvsWS parsed from the tool's report.
C2_CountsFromReport ==
    (P4Success /\ ~LcRet.utf16crlf) =>
        /\ ret.res.AddedLines = P4Ret.r.AddedLines
        /\ ret.res.RemovedLines = P4Ret.r.RemovedLines
        /\ ret.res.ChangedLines = P4Ret.r.ChangedLines

\* C3: on a workspace file detected as UTF-16 CR/LF, a successful DiffHRvsWS
\* call with algo "p4" returns twice the parsed added and removed counts, and
\* a true Utf16crlf flag.
C3_Utf16Doubled ==
    (P4Success /\ LcRet.utf16crlf) =>
        /\ ret.res.AddedLines = 2 * P4Ret.r.AddedLines
        /\ ret.res.RemovedLines = 2 * P4Ret.r.RemovedLines
        /\ ret.res.Utf16crlf

\* C4: a successful DiffHRvsWS call with algo "p4" returns the line counter's
\* count of the workspace file as NbLinesWS and its detection result as
\* Utf16crlf.
C4_LineCounterFacts ==
    P4Success =>
        /\ ret.res.NbLinesWS = LcRet.count
        /\ ret.res.Utf16crlf = LcRet.utf16crlf

\* C5: when the tool ran and its output does not hold the header followed by
\* the add, deleted and changed lines, p4DiffHRvsWS returns a non-nil error:
\* it neither returns a nil error nor panics.
C5_MalformedIsParseError ==
    (/\ Returned("DiffHRvsWS") /\ "p4" \in ret.ran
     /\ env.e.ws.exists /\ LcRet.err = "nil" /\ Len(p.workspace) > 0 /\ env.e.diff.ok
     /\ FindAllStringSubmatch(env.e.diff.lines) = <<>>)
        => P4Ret.err \notin {"nil", "panic"}

\* C6: the multiset diff of a workspace file byte-identical to the head
\* revision returns AddedLines = 0, RemovedLines = 0 and NbLinesWS = NbLinesHR.
C6_IdenticalContent ==
    (/\ Returned("customDiffHRvsWS") /\ ret.err = "nil"
     /\ env.e.ws.data = env.e.print.data)
        => /\ ret.res.AddedLines = 0
           /\ ret.res.RemovedLines = 0
           /\ ret.res.NbLinesWS = ret.res.NbLinesHR

\* C7: when the workspace lines are a permutation of the head revision's
\* lines the multiset diff returns AddedLines = 0 and RemovedLines = 0, and
\* its result does not change when the lines of either side are put in
\* another order (here: reversed).
C7_OrderInsensitive ==
    (Returned("customDiffHRvsWS") /\ ret.err = "nil") =>
        LET rw == customDiffHRvsWS(p, env.call.depotFile, "/ws/a.txt",
                      [env.e EXCEPT !.ws.data = ReverseLines(@)]).r
            rh == customDiffHRvsWS(p, env.call.depotFile, "/ws/a.txt",
                      [env.e EXCEPT !.print.data = ReverseLines(@)]).r
        IN  /\ IsPermutation(ScanLines(env.e.ws.data), ScanLines(env.e.print.data))
                   => (ret.res.AddedLines = 0 /\ ret.res.RemovedLines = 0)
            /\ rw.AddedLines = ret.res.AddedLines
            /\ rw.RemovedLines = ret.res.RemovedLines
            /\ rh.AddedLines = ret.res.AddedLines
            /\ rh.RemovedLines = ret.res.RemovedLines

\* C8: DiffHRvsWS called with an algorithm name other than "p4" or "custom"
\* returns a non-nil error and runs neither algorithm: no "p4 diff", no
\* "p4 files" and no "p4 print" command is issued.
C8_InvalidAlgoRejected ==
    (Returned("DiffHRvsWS") /\ env.call.algo \notin {"p4", "custom"}) =>
        /\ ret.err # "nil"
        /\ ret.ran = {}
        /\ \A i \in 1..Len(ret.cmds) :
               \A j \in 1..Len(ret.cmds[i]) :
                   ret.cmds[i][j] \notin {"diff", "files", "print"}

\* C8 witness: a call with the name "P4" got past GetP4Where and was rejected
C8_Witness ==
    /\ Returned("DiffHRvsWS") /\ env.call.algo = "P4"
    /\ WhereRet.err = "nil"
    /\ ret.err = "Invalid algorithm name"

\* C9: every successful DiffHRvsWS call returns the caller's depot file as
\* FileHR and the path GetP4Where returned as FileWS, whatever labels the
\* algorithm put in its own result.
C9_LabelsNormalized ==
    (Returned("DiffHRvsWS") /\ ret.err = "nil") =>
        /\ ret.res.FileHR = env.call.depotFile
        /\ ret.res.FileWS = WhereRet.fileName
        /\ ret.res.FileWS = "/ws/a.txt"

\* C9 witness: a successful "p4" call whose algorithm labelled its result
\* otherwise
C9_Witness ==
    /\ P4Success
    /\ P4Ret.r.FileHR # env.call.depotFile
    /\ P4Ret.r.FileWS # WhereRet.fileName

\* C10: whenever DiffHRvsWS returns a non-nil error, the result returned with
\* it is the zero T_DiffRes.
C10_NoPartialResult ==
    (Returned("DiffHRvsWS") /\ ret.err \notin {"nil", "panic"}) => ret.res = ZeroRes

\* the commands of the call that returned whose words include word
CmdsWith(word) ==
    {i \in 1..Len(ret.cmds) : \E j \in 1..Len(ret.cmds[i]) : ret.cmds[i][j] = word}

\* C11: with an empty workspace name, DiffHRvsWS with algo "p4" returns a
\* non-nil error (it does not panic) and issues no "p4 diff" command.
C11_NoWorkspaceNoDiff ==
    (Returned("DiffHRvsWS") /\ env.call.algo = "p4" /\ Len(p.workspace) = 0) =>
        /\ ret.err \notin {"nil", "panic"}
        /\ CmdsWith("diff") = {}

\* C11 witness: such a call reached the test of the workspace name, with the
\* workspace file counted and a tool that would have answered
C11_Witness ==
    /\ Returned("DiffHRvsWS") /\ env.call.algo = "p4" /\ Len(p.workspace) = 0
    /\ WhereRet.err = "nil" /\ env.e.ws.exists /\ LcRet.err = "nil"
    /\ env.e.diff.ok
    /\ ret.err = "a workspace needs to be defined"

\* C12: every T_DiffRes that DiffHRvsWS returns has NbLinesHR >= 0.
C12_HeadCountNonNegative ==
    Returned("DiffHRvsWS") => ret.res.NbLinesHR >= 0

\* C20: when reading the workspace file fails with an error other than
\* end-of-stream, lineCounter returns no counts (count 0, flag false) with the
\* error, and the result p4DiffHRvsWS returns carries no NbLinesWS.
C20_ReadErrorNoCounts ==
    (/\ Returned("DiffHRvsWS") /\ "p4" \in ret.ran
     /\ env.e.ws.exists /\ LcRet.err # "nil")
        => /\ LcRet.count = 0
           /\ ~LcRet.utf16crlf
           /\ P4Ret.err = LcRet.err
           /\ P4Ret.r.NbLinesWS = 0
           /\ ~P4Ret.r.Utf16crlf

\* the number of positions of s at which sep occurs
Occurs(s, sep) == Cardinality({i \in 1..Len(s) : MatchAt(s, sep, i)})

\* lineCounter has returned, the stream having ended without a read error
LcDone == Returned("lineCounter") /\ env.e.reads[Len(env.e.reads)].err = "EOF"

\* C18: whatever the chunks the reader delivers a stream in, lineCounter
\* returns a nil error and the number of 0x0A bytes of the whole stream,
\* bytes delivered by the read that reports end-of-stream included.
C18_CountsLineFeeds ==
    LcDone =>
        /\ ret.err = "nil"
        /\ ret.count = Occurs(Stream(env.e.reads), <<10>>)

\* C18 witness: a stream of three lines, the last one without terminator,
\* delivered in several reads, the last of them together with end-of-stream
C18_Witness ==
    /\ LcDone
    /\ Stream(env.e.reads) = <<0, 10, 0, 10, 0>>
    /\ Len(env.e.reads) = 3
    /\ env.e.reads[3].data = <<10, 0>>
    /\ ret.count = 2

\* C19: lineCounter returns utf16crlf = TRUE exactly when the UTF-16-LE or
\* the UTF-16-BE CR/LF sequence occurs somewhere in the stream, whatever the
\* chunks; and a flag set after some read is still set in the result.
C19_Utf16Detection ==
    LcDone =>
        /\ ret.utf16crlf <=> (\/ Occurs(Stream(env.e.reads), utf16LESep) >= 1
                              \/ Occurs(Stream(env.e.reads), utf16BESep) >= 1)
        /\ \A k \in 1..(Len(env.e.reads) - 1) :
               lineCounter(Append(SubSeq(env.e.reads, 1, k),
                                  [data |-> <<>>, err |-> "EOF"])).utf16crlf
                   => ret.utf16crlf

\* C13: when the tool answers "no such file(s)." GetHeadRev returns a
\* negative revision; it does not return revision 0 with a nil error.
C13_NotFoundIsNegative ==
    (Returned("GetHeadRev") /\ env.e.files.ok /\ env.e.files.noSuch) =>
        /\ ret.rev < 0
        /\ ~(ret.rev = 0 /\ ret.err = "nil")

\* C14: GetCLContent returns a non-nil error whenever the change-list number
\* read in the tool's answer differs from the number asked for, with or
\* without a list of files in the answer.
C14_WrongChangeListIsError ==
    (/\ Returned("GetCLContent")
     /\ env.e.describe.ok /\ ~env.e.describe.noSuch /\ env.e.describe.hdr
     /\ env.e.describe.clnb.fits
     /\ env.e.describe.clnb.v # env.call.changeList)
        => ret.err # "nil"

\* C15: GetFile returns a non-nil error when the print command exits with
\* success and has written no file; when it returns a nil error the temp file
\* it names holds what the tool wrote.
C15_NoFileIsError ==
    Returned("GetFile") =>
        /\ (/\ ret.tempFile # "" /\ env.e.print.ok /\ ~env.e.print.wrote)
               => ret.err # "nil"
        /\ ret.err = "nil" =>
               /\ env.e.print.wrote
               /\ ret.temp.exists
               /\ ret.temp.data = env.e.print.data

\* the lines of a file as the multiset diff compares them
TextLinesOf(lines) == [i \in 1..Len(lines) |-> ScanText(p, lines[i])]
TextLines(data) == TextLinesOf(ScanLines(data))
HeadLines == TextLines(env.e.print.data)
WorkLines == TextLines(env.e.ws.data)

\* the distinct non-empty lines of s and t
DistinctLines(s, t) ==
    ({s[i] : i \in 1..Len(s)} \cup {t[i] : i \in 1..Len(t)}) \ {<<>>}

\* for every distinct non-empty line the occurrences s has more than t, summed
SurplusOver(s, t, D) ==
    SumMap([x \in D |->
               IF Occurrences(s, x) > Occurrences(t, x)
               THEN Occurrences(s, x) - Occurrences(t, x) ELSE 0],
           D)
Surplus(s, t) == SurplusOver(s, t, DistinctLines(s, t))

\* the multiset difference of the workspace lines w and the head lines h
IsDifference(res, h, w) ==
    /\ res.AddedLines = Surplus(w, h)
    /\ res.RemovedLines = Surplus(h, w)

\* customDiffHRvsWS has returned a nil error
CustomSuccess == Returned("customDiffHRvsWS") /\ ret.err = "nil"

\* C16: on two files without empty line (once trimmed, when white space is
\* ignored) the multiset diff returns as AddedLines the occurrences the
\* workspace file has more than the head revision, summed over the distinct
\* lines, and as RemovedLines the occurrences the head revision has more.
C16_MultisetDifference ==
    CustomSuccess =>
        \A h \in {HeadLines}, w \in {WorkLines} :
            (Occurrences(h, <<>>) = 0 /\ Occurrences(w, <<>>) = 0)
                => IsDifference(ret.res, h, w)

\* C16 witness: a head revision of two lines and a workspace file with the
\* same two lines, a second copy of one of them and a new line
C16_Witness ==
    /\ CustomSuccess
    /\ ~p.diffignorespace
    /\ HeadLines = <<<<97>>, <<32>>>>
    /\ WorkLines = <<<<97>>, <<97>>, <<32, 97>>>>
    /\ ret.res.AddedLines = 2
    /\ ret.res.RemovedLines = 1

\* C17: empty lines take no part in the matching on either side and count in
\* the totals: NbLinesHR and NbLinesWS are the numbers of lines of the two
\* files, empty ones included, and AddedLines and RemovedLines are what they
\* are for the files without their empty lines.
C17_EmptyLinesNotMatched ==
    CustomSuccess =>
        /\ ret.res.NbLinesHR = Len(HeadLines)
        /\ ret.res.NbLinesWS = Len(WorkLines)
        /\ \A h \in {HeadLines}, w \in {WorkLines} : IsDifference(ret.res, h, w)

\* C21: every "p4 diff" command of a DiffHRvsWS call has, right after the
\* word diff, the option "-dls", with a "b" appended exactly when
\* diffignorespace is set, with and without a configured user.
C21_DiffOptionPassed ==
    Returned("DiffHRvsWS") =>
        \A i \in CmdsWith("diff") :
            \E j \in 1..(Len(ret.cmds[i]) - 1) :
                /\ ret.cmds[i][j] = "diff"
                /\ ret.cmds[i][j + 1] = (IF p.diffignorespace THEN "-dlsb" ELSE "-dls")

\* C22: when p4DiffHRvsWS parses a report, ChangedLines is the sum of the two
\* numbers of the changed line, and AddedLines and RemovedLines are the line
\* counts of the add and of the deleted line.
C22_ChangedIsSum ==
    (Returned("DiffHRvsWS") /\ "p4" \in ret.ran /\ P4Ret.err = "nil") =>
        \A g \in {FindAllStringSubmatch(env.e.diff.lines)[1]}, r \in {P4Ret.r} :
            /\ r.ChangedLines = g[9].v + g[10].v
            /\ r.AddedLines = g[5].v
            /\ r.RemovedLines = g[7].v

\* what customDiffHRvsWS gave to the DiffHRvsWS call that returned
CustomRet == customDiffHRvsWS(p, env.call.depotFile, WhereRet.fileName, env.e)

\* what it gives in the same environment when os.Remove succeeds
CustomRetRemoved ==
    customDiffHRvsWS(p, env.call.depotFile, WhereRet.fileName,
                     [env.e EXCEPT !.rmOK = TRUE])

\* the multiset diff ran in a DiffHRvsWS call in which os.Remove fails
RemoveFails == Returned("DiffHRvsWS") /\ "custom" \in ret.ran /\ ~env.e.rmOK

\* C23: when the removal of the temp file fails after the comparison,
\* customDiffHRvsWS returns a nil error and the result it returns when the
\* removal succeeds.
C23_RemoveFailureNotFatal ==
    RemoveFails =>
        \A c \in {CustomRet}, ok \in {CustomRetRemoved} :
            ok.err = "nil" => (c.err = "nil" /\ c.r = ok.r /\ ret.err = "nil")

\* C23 witness: a comparison that found an added line, and a removal that
\* failed
C23_Witness ==
    /\ RemoveFails
    /\ ret.tmp = "remove failed"
    /\ ret.err = "nil"
    /\ ret.res.AddedLines = 1

\* C24: every result of the multiset diff, from customDiffHRvsWS and from
\* DiffHRvsWS with algo "custom", with or without an error, has
\* ChangedLines = 0 and Utf16crlf = FALSE.
C24_NoChangedNoUtf16 ==
    (Returned("DiffHRvsWS") /\ "custom" \in ret.ran) =>
        /\ ret.res.ChangedLines = 0
        /\ ~ret.res.Utf16crlf
        /\ \A c \in {CustomRet} : c.r.ChangedLines = 0 /\ ~c.r.Utf16crlf

\* C24 witness: a successful "custom" call that found one line added and
\* one line removed
C24_Witness ==
    /\ Returned("DiffHRvsWS") /\ env.call.algo = "custom" /\ ret.err = "nil"
    /\ ret.res.AddedLines = 1
    /\ ret.res.RemovedLines = 1

\* C27: no return of customDiffHRvsWS leaves the temp file that GetFile
\* created on disk without an attempt to remove it.
C27_TempFileNotLeft ==
    (Returned("DiffHRvsWS") /\ "custom" \in ret.ran) => ret.tmp # "left"

\* the multiset diff is in one of its loops, or has returned from them
Scanning == pc \in {"scanHR", "scanWS", "returned"}

\* C25: at every step of the two loops of the multiset diff every entry of
\* the map is >= 0, and NbLinesHR, NbLinesWS, AddedLines and RemovedLines
\* are >= 0, at every step and on return.
C25_NothingNegative ==
    Scanning =>
        /\ \A x \in DOMAIN ret.m : ret.m[x] >= 0
        /\ ret.NbLinesHR >= 0
        /\ ret.NbLinesWS >= 0
        /\ ret.AddedLines >= 0
        /\ ret.RemovedLines >= 0

\* C25 witness: the workspace loop has met a second copy of a line the head
\* revision holds once: its entry is 0 and the copy was counted as added
C25_Witness ==
    /\ pc = "scanWS"
    /\ env.e.hr = <<<<97>>>>
    /\ env.e.ws = <<<<97>>, <<97>>>>
    /\ ret.i = 3
    /\ ret.m[<<97>>] = 0
    /\ ret.AddedLines = 1

\* C28: every successful customDiffHRvsWS result has
\* NbLinesWS - AddedLines = NbLinesHR - E - RemovedLines, E being the number
\* of head revision lines that are empty as compared.
C28_Conservation ==
    CustomSuccess =>
        \A h \in {HeadLines} :
            ret.res.NbLinesWS - ret.res.AddedLines
                = ret.res.NbLinesHR - Occurrences(h, <<>>) - ret.res.RemovedLines

\* C28 witness: both files hold an empty line and a line they share
C28_Witness ==
    /\ CustomSuccess
    /\ HeadLines = <<<<>>, <<97>>>>
    /\ WorkLines = <<<<97>>, <<>>>>
    /\ ret.res.AddedLines = 1
    /\ ret.res.RemovedLines = 0

\* what customDiffHRvsWS gives with the contents of the two files exchanged
SwappedRet ==
    customDiffHRvsWS(p, env.call.depotFile, "/ws/a.txt",
                     [env.e EXCEPT !.ws.data = env.e.print.data,
                                   !.print.data = env.e.ws.data])

\* C29: the multiset diff of W against H gives the AddedLines and
\* RemovedLines of the diff of H against W exchanged, and its NbLinesHR and
\* NbLinesWS exchanged.
C29_Antisymmetric ==
    CustomSuccess =>
        \A sw \in {SwappedRet} :
            /\ sw.err = "nil"
            /\ sw.r.AddedLines = ret.res.RemovedLines
            /\ sw.r.RemovedLines = ret.res.AddedLines
            /\ sw.r.NbLinesHR = ret.res.NbLinesWS
            /\ sw.r.NbLinesWS = ret.res.NbLinesHR

\* the positions of cmd that hold "-u"
UserFlags(cmd) == {j \in 1..Len(cmd) : cmd[j] = "-u"}

\* C30: every command a wrapper issues holds "-u" once, followed by the
\* configured user, when a user is configured, and holds no "-u" when none
\* is (GetP4Where, GetFile, GetP4Files, GetCLContent, GetCLSpecProperties,
\* PutCLSpecProperties).
C30_UserFlag ==
    (pc = "returned" /\ env.call.op # "") =>
        \A i \in 1..Len(ret.cmds) :
            IF Len(p.user) > 0
            THEN \E j \in 1..(Len(ret.cmds[i]) - 1) :
                     /\ UserFlags(ret.cmds[i]) = {j}
                     /\ ret.cmds[i][j + 1] = p.user
            ELSE UserFlags(ret.cmds[i]) = {}

\* invocation i is between the creation of its temp file and the return
Holding(i) == pc[i] \in {"print", "Stat", "Open", "Scan", "Remove"}

\* C26: of several multiset diffs running at the same time, on the same or
\* on different depot files, each has a temp file of its own: while an
\* invocation holds its file, the file exists, was created by it and written
\* by no other, and no other invocation holds the same name; the file it
\* scanned and the file it removed are the one it created.
C26_OwnScratchFile ==
    \A i \in Procs :
        /\ Holding(i) =>
               /\ env.fs[ret[i].tempHR].exists
               /\ env.fs[ret[i].tempHR].creator = i
               /\ env.fs[ret[i].tempHR].writer \in {0, i}
               /\ \A j \in Procs \ {i} :
                      Holding(j) => ret[j].tempHR # ret[i].tempHR
        /\ ret[i].read.exists =>
               ret[i].read.creator = i /\ ret[i].read.writer \in {0, i}
        /\ ret[i].removed.exists =>
               ret[i].removed.creator = i /\ ret[i].removed.writer \in {0, i}

\* one invocation removed the file it had written while another, on the same
\* depot file, has scanned its own and is about to remove it
C26_Witness ==
    \E i \in Procs, j \in Procs :
        /\ i # j
        /\ pc[i] = "returned" /\ ret[i].removed.writer = i
        /\ pc[j] = "Remove" /\ ret[j].read.writer = j
        /\ ret[i].fileInDepot = ret[j].fileInDepot

====
